---- MODULE Spec2Model ----
(***************************************************************************)
(* Enphase Envoy v7 driver: the session client (api.ts, EnphaseEnvoyApi)   *)
(* and the poll of the device (device.ts, EnphaseEnvoy.checkProduction).   *)
(*                                                                         *)
(* One step of the model is what the JavaScript run-to-completion          *)
(* semantics executes between two awaits on the network: the code that     *)
(* handles the response that has arrived, up to and including the issue    *)
(* of the next request.  The responses of the gateway and of the cloud     *)
(* are the inputs, chosen with \E.                                         *)
(*                                                                         *)
(* checkProduction overrides the metering decision it has computed         *)
(* (isMetered = false, device.ts:114), which leaves its metered branch     *)
(* (device.ts:145-186) unreachable.  forceUnmetered is that override:      *)
(* TRUE is the source as it stands, FALSE is the source with the one       *)
(* statement lifted, the configuration the statements about the metered    *)
(* branch are about.                                                       *)
(*                                                                         *)
(* JavaScript values: a secret (accessToken, sessionId) is Null,           *)
(* Undefined or a positive number naming the getAccessToken run that       *)
(* minted it.  A capability value or a looked-up power is <<>> (null or    *)
(* undefined) or <<n>> (the number n).  An error is the tuple of the       *)
(* parts of its message.                                                   *)
(*                                                                         *)
(* Specifications: Spec is the device with either setting of the           *)
(* override; SpecReference is the source as it stands, with the history    *)
(* of setCredentials; FairSpec adds to it that every request is answered;  *)
(* SpecVerify has getEnphaseSessionId called on its own, with its history. *)
(***************************************************************************)
EXTENDS Integers, Sequences, FiniteSets, TLC

\* ---------------------------------------------------------------- bounds
MaxPolls == 1
MaxMeters == 2
MaxReadings == 2

\* ------------------------------------------------------ values and inputs
Null == 0
Undefined == -1
NoResponse == 0

Statuses == {200, 401, 500}
Responses == Statuses \cup {NoResponse}

NET_CONSUMPTION_METER == "net-consumption"
PRODUCTION_METER == "production"
MeasurementTypes == {PRODUCTION_METER, NET_CONSUMPTION_METER, "other"}

Powers == {-120, 0, 500}
WNows == {0, 842}

Capabilities ==
  {"meter_power", "measure_power", "measure_power.consumption", "measure_power.grid"}

\* The capability values the host holds when the device starts: none yet, or
\* those an earlier run of the device left (an unmetered poll's).
StoredValues ==
  {[c \in Capabilities |-> <<>>],
   [c \in Capabilities |-> IF c = "measure_power" THEN <<842>> ELSE <<0>>]}

\* The settings a user may save (DeviceSettings of types.ts).
Settings ==
  {[username |-> "alice", password |-> "pw1"], [username |-> "bob", password |-> "pw2"]}

\* The meter lists the gateway may return: the i-th meter has eid i.
MeterLists ==
  {[i \in 1..Len(types) |-> [eid |-> i, measurementType |-> types[i]]] :
     types \in UNION {[1..n -> MeasurementTypes] : n \in 0..MaxMeters}}

\* The meter readings the gateway may return.
Eids == {1, 2}
MeterReadings ==
  UNION {[1..n -> [eid : Eids, activePower : Powers]] : n \in 0..MaxReadings}

\* The production reports the gateway may return: production[0].wNow, or no
\* production entry at all.
ProductionReports ==
  {[production |-> <<>>]} \cup {[production |-> <<[wNow |-> w]>>] : w \in WNows}

\* The Set-Cookie headers the gateway may answer check_jwt with, for a
\* session it would name v: no header, or one cookie pair, followed by a
\* semicolon or not.
SetCookieHeaders(v) ==
  {<<>>} \cup {<<[name |-> n, value |-> v, semicolon |-> t]>> :
                 n \in {"sessionId", "other"}, t \in BOOLEAN}

\* ----------------------------------------------------------------- state
VARIABLES
  forceUnmetered,      \* whether the override of device.ts:114 is in force
  enphaseApi,          \* whether this.enphaseApi is set
  address, deviceSn, username, password, accessToken, sessionId,
  cap,                 \* the capability values of the device
  available,           \* whether the host holds the device available
  pc,                  \* where checkProduction is
  request,             \* the request the poll is awaiting
  isRetry,             \* the isRetry argument of the fetchApiEndpoint awaited
  meterData, isMetered,
  polls,               \* polls started
  authRuns,            \* getAccessToken runs started
  fetch,               \* history: the fetchApiEndpoint call under way or last ended
  poll,                \* history: the poll under way or last ended
  verified,            \* history: the last getEnphaseSessionId call by itself
  credentialsUse       \* history: the last setCredentials call and its use

clientVars == <<address, deviceSn, username, password, accessToken, sessionId>>
secretVars == <<accessToken, sessionId>>
credentialVars == <<username, password>>
deviceVars == <<cap, available>>
localVars == <<meterData, isMetered>>
historyVars == <<verified, credentialsUse>>
vars ==
  <<forceUnmetered, enphaseApi, address, deviceSn, username, password,
    accessToken, sessionId, cap, available, pc, request,
    isRetry, meterData, isMetered, polls, authRuns, fetch, poll, verified,
    credentialsUse>>

\* ------------------------------------------------------------- requests
NoRequest == [to |-> "none"]

RequestHeaders(sid) ==
  IF sid # Null THEN <<sid>> ELSE <<>>

GatewayRequest(path, sid) ==
  [to |-> "gateway", path |-> path, Cookie |-> RequestHeaders(sid)]

LoginRequest(u, p) ==
  [to |-> "login", username |-> u, password |-> p]

TokenRequest(session_id, serial_num, u) ==
  [to |-> "tokens", session_id |-> session_id, serial_num |-> serial_num,
   username |-> u]

CheckJwtRequest(token) ==
  [to |-> "check_jwt", Authorization |-> token]

Path(at) ==
  CASE at = "getMeters" -> "ivp/meters"
    [] at = "getProductionData" -> "production.json"
    [] at = "getMeterReadings" -> "ivp/meters/readings"

\* --------------------------------------------------------------- errors
NoError == <<>>
FetchError == <<"request failed">>
UnknownError(status, token, sid) ==
  <<"An unknown error occurred while fetching inverter data:", status,
    " and bearer: ", token, " and sessionId: ", sid>>
LoginError ==
  <<"Failed to authenticate to Enphase - are your username and password correct?">>
TokenError == <<"An error occurred while retrieving an access token">>
TypeError == <<"Cannot read properties of undefined (reading 'wNow')">>
NotDiscovered == <<"Enphase Envoy could not be discovered on your network">>

\* ------------------------------------------------- the code's expressions
\* response.ok
Ok(status) == status >= 200 /\ status < 300

\* RetryCondition without its !isRetry
RetryConditionEveryAttempt(status, retry) == status >= 400 /\ status < 500

\* RetryCondition without its upper limit on the status
RetryConditionAnyError(status, retry) == status >= 400 /\ ~retry

\* RetryCondition testing !isRetry only
RetryConditionFirstAttempt(status, retry) == ~retry

\* response.status >= 400 && response.status < 500 && !isRetry
RetryCondition(status, retry) == status >= 400 /\ status < 500 /\ ~retry

\* headers.get("set-cookie")?.match(/sessionId=(.*?);/)?.[1]
ParseCookie(header) ==
  IF header # <<>> /\ header[1].name = "sessionId" /\ header[1].semicolon
  THEN header[1].value
  ELSE Undefined

\* IsMeteredComputed without its meterData.length
IsMeteredEvery(meters) ==
  \A i \in 1..Len(meters) :
    meters[i].measurementType \in {NET_CONSUMPTION_METER, PRODUCTION_METER}

\* meterData.length && meterData.map(...).every(...)
IsMeteredComputed(meters) ==
  /\ Len(meters) # 0
  /\ \A i \in 1..Len(meters) :
       meters[i].measurementType \in {NET_CONSUMPTION_METER, PRODUCTION_METER}

\* Override without the assignment of device.ts:114
OverrideLifted(computed) == computed

\* isMetered = false
Override(computed) == IF forceUnmetered THEN FALSE ELSE computed

\* array.find(predicate): the index of the first match, 0 when there is none
FirstIndex(matches) ==
  IF matches = {} THEN 0
  ELSE CHOOSE i \in matches : \A j \in matches : i <= j

\* meterData.find((meter) => meter.measurementType === type)?.eid
EidOf(meters, type) ==
  LET i == FirstIndex({k \in 1..Len(meters) : meters[k].measurementType = type})
  IN  IF i = 0 THEN Undefined ELSE meters[i].eid

\* meterReadingsData.find((meter) => meter.eid === eid)?.activePower
ActivePower(readings, eid) ==
  LET i == FirstIndex({k \in 1..Len(readings) : readings[k].eid = eid})
  IN  IF i = 0 THEN <<>> ELSE <<readings[i].activePower>>

\* OrNull with 0 for null: value || 0
OrZero(value) == IF value = <<>> \/ value = <<0>> THEN <<0>> ELSE value

\* value || null
OrNull(value) == IF value = <<>> \/ value = <<0>> THEN <<>> ELSE value

\* productionPower + gridConsumptionPower
SelfConsumption(productionPower, gridConsumptionPower) ==
  <<productionPower[1] + gridConsumptionPower[1]>>

\* CurrentPower left at its initial value: let currentPower = 0
CurrentPowerInitial(productionData) == <<0>>

\* productionData.production[0].wNow
CurrentPower(productionData) == <<productionData.production[1].wNow>>

\* ErrorMessage as one fixed text for every error
ErrorMessageFixed(err) == <<"Enphase Envoy is unavailable">>

\* (err as Error).message
ErrorMessage(err) == err

\* -------------------------------------------------------------- history
\* of a fetchApiEndpoint call made by the poll: the data requests sent, the
\* responses to them, the getAccessToken calls made, how the last of them
\* ended, the secrets held when it began, and how the call ended
NewFetch ==
  [requests |-> 1, responses |-> <<>>, auths |-> 0, auth |-> "none",
   before |-> <<Null, Null>>, state |-> "pending"]

NoFetch ==
  [requests |-> 0, responses |-> <<>>, auths |-> 0, auth |-> "none",
   before |-> <<Null, Null>>, state |-> "none"]

\* of a poll: the capability values when it began, the capabilities it has
\* set, the error caught and where, the setAvailable/setUnavailable calls
\* made and the last one's kind and message, the inputs it read (wNow, the
\* two active powers found by eid), and the branch taken
NewPoll(values) ==
  [prior |-> values, written |-> {}, thrown |-> NoError, failedAt |-> "none",
   marks |-> 0, result |-> "none", message |-> <<>>, wNow |-> <<>>,
   production |-> <<>>, grid |-> <<>>, path |-> "none"]

\* of getEnphaseSessionId called by itself (to verify credentials): the
\* arguments, the response of the login endpoint, whether it returned
NoVerification ==
  [username |-> "", password |-> "", response |-> NoResponse, returned |-> FALSE,
   called |-> FALSE]

\* of setCredentials: the arguments of the last call, and whether a
\* getAccessToken run has begun since ("set", then "used")
NoCredentialsUse == [state |-> "none", username |-> "", password |-> ""]

\* ----------------------------------------------------------------- Init
Init ==
  /\ forceUnmetered \in BOOLEAN
  /\ enphaseApi = FALSE
  /\ address = "" /\ deviceSn = "" /\ username = "" /\ password = ""
  /\ accessToken = Null /\ sessionId = Null
  /\ cap \in StoredValues
  /\ available = TRUE
  /\ pc = "idle" /\ request = NoRequest /\ isRetry = FALSE
  /\ meterData = <<>> /\ isMetered = FALSE
  /\ polls = 0 /\ authRuns = 0
  /\ fetch = NoFetch
  /\ poll = NewPoll(cap)
  /\ verified = NoVerification
  /\ credentialsUse = NoCredentialsUse

\* ------------------------------------------------------------ discovery
\* onDiscoveryAddressChanged: a client is constructed for the address found,
\* with the username and password of getSettings() and no secrets.
\* Modelled for the first discovery only (no poll is awaiting a request of
\* an older client).
onDiscoveryAddressChanged(stored) ==
  /\ ~enphaseApi
  /\ enphaseApi' = TRUE
  /\ address' = "envoy.local" /\ deviceSn' = "122000000001"
  /\ username' = stored.username /\ password' = stored.password
  /\ accessToken' = Null /\ sessionId' = Null
  /\ UNCHANGED <<forceUnmetered, deviceVars, pc, request, isRetry, localVars,
                 polls, authRuns, fetch, poll, historyVars>>

\* -------------------------------------------------------------- settings
\* setCredentials assigning the username only
setCredentialsUsernameOnly(u, p) ==
  /\ username' = u
  /\ password' = password

\* setCredentials(username, password): the client's fields after the call
setCredentials(u, p) ==
  /\ username' = u
  /\ password' = p

\* LoginSucceeds without its test of authResponse.ok
LoginSucceedsAnyResponse(response) == response # NoResponse

\* getEnphaseSessionId: whether the login response makes it return
\* (authResponse.ok, and fetch did not reject)
LoginSucceeds(response) == response # NoResponse /\ Ok(response)

\* getEnphaseSessionId: the session_id the cloud returns for an account
SessionIdFor(u) == u

\* onSettings: await getEnphaseSessionId(newSettings...), which throws when
\* the login is rejected; otherwise this.enphaseApi?.setCredentials(...)
\* and setAvailable().  The handler reads nothing but its argument and
\* this.enphaseApi after the await, so it is one step, taken when the
\* login response arrives.
onSettings(newSettings, response) ==
  /\ IF LoginSucceeds(response)
     THEN /\ IF enphaseApi
             THEN setCredentials(newSettings.username, newSettings.password)
             ELSE UNCHANGED credentialVars
          /\ available' = TRUE
     ELSE UNCHANGED <<credentialVars, available>>
  /\ UNCHANGED <<forceUnmetered, enphaseApi, address, deviceSn, secretVars, cap,
                 pc, request, isRetry, localVars, polls, authRuns, fetch, poll,
                 verified>>

\* ------------------------------------------------------------- the poll
envVars == <<forceUnmetered, enphaseApi, historyVars>>

\* checkProduction, the end of the try block: setAvailable()
SetAvailable(history) ==
  /\ pc' = "done" /\ request' = NoRequest /\ isRetry' = FALSE
  /\ meterData' = <<>> /\ isMetered' = FALSE
  /\ available' = TRUE
  /\ poll' = [history EXCEPT !.marks = @ + 1, !.result = "available"]

\* Catch calling setAvailable() instead of setUnavailable(errorMessage)
CatchSetsAvailable(err, history) ==
  SetAvailable([history EXCEPT !.thrown = err, !.failedAt = pc])

\* Catch logging the error without calling setUnavailable
CatchLogsOnly(err, history) ==
  /\ pc' = "done" /\ request' = NoRequest /\ isRetry' = FALSE
  /\ meterData' = <<>> /\ isMetered' = FALSE
  /\ available' = available
  /\ poll' = [history EXCEPT !.thrown = err, !.failedAt = pc]

\* checkProduction, the catch block: setUnavailable(errorMessage)
Catch(err, history) ==
  /\ pc' = "done" /\ request' = NoRequest /\ isRetry' = FALSE
  /\ meterData' = <<>> /\ isMetered' = FALSE
  /\ available' = FALSE
  /\ poll' = [history EXCEPT !.thrown = err, !.failedAt = pc, !.marks = @ + 1,
                             !.result = "unavailable",
                             !.message = ErrorMessage(err)]

\* checkProduction with a client: up to the await of getMeters()
checkProduction ==
  /\ pc \in {"idle", "done"} /\ polls < MaxPolls
  /\ enphaseApi
  /\ polls' = polls + 1
  /\ pc' = "getMeters"
  /\ request' = GatewayRequest(Path("getMeters"), sessionId)
  /\ isRetry' = FALSE
  /\ fetch' = NewFetch
  /\ poll' = NewPoll(cap)
  /\ UNCHANGED <<envVars, clientVars, deviceVars, localVars, authRuns>>

\* checkProduction without a client: setUnavailable("... not be discovered")
checkProductionUndiscovered ==
  /\ pc \in {"idle", "done"} /\ polls < MaxPolls
  /\ ~enphaseApi
  /\ polls' = polls + 1
  /\ pc' = "done"
  /\ available' = FALSE
  /\ fetch' = NoFetch
  /\ poll' = [NewPoll(cap) EXCEPT !.marks = 1, !.result = "unavailable",
                                  !.message = NotDiscovered]
  /\ UNCHANGED <<envVars, clientVars, cap, request, isRetry, localVars, authRuns>>

\* ------------------------------------------------------ fetchApiEndpoint
\* await fetch(url, ...) rejects: the error leaves fetchApiEndpoint
fetchRejected ==
  /\ request.to = "gateway"
  /\ fetch' = [fetch EXCEPT !.responses = Append(@, NoResponse), !.state = "threw"]
  /\ Catch(FetchError, poll)
  /\ UNCHANGED <<envVars, clientVars, cap, polls, authRuns>>

\* a 4xx on the first attempt: getAccessToken() is called, which calls
\* getEnphaseSessionId(this.username, this.password)
fetchUnauthorized(status) ==
  /\ request.to = "gateway"
  /\ RetryCondition(status, isRetry)
  /\ authRuns' = authRuns + 1
  /\ request' = LoginRequest(username, password)
  /\ fetch' = [fetch EXCEPT !.responses = Append(@, status), !.auths = @ + 1,
                            !.auth = "running",
                            !.before = <<accessToken, sessionId>>]
  /\ UNCHANGED <<forceUnmetered, enphaseApi, verified, clientVars, deviceVars,
                 pc, isRetry, localVars, polls, poll>>

\* else if (!response.ok) throw
fetchNotOk(status) ==
  /\ request.to = "gateway"
  /\ ~RetryCondition(status, isRetry)
  /\ ~Ok(status)
  /\ fetch' = [fetch EXCEPT !.responses = Append(@, status), !.state = "threw"]
  /\ Catch(UnknownError(status, accessToken, sessionId), poll)
  /\ UNCHANGED <<envVars, clientVars, cap, polls, authRuns>>

\* ------------------------------------------------------- getAccessToken
\* loginFailed with the error swallowed and the data request sent again
loginFailedSwallowed(response) ==
  /\ request.to = "login"
  /\ ~LoginSucceeds(response)
  /\ request' = GatewayRequest(Path(pc), sessionId)
  /\ isRetry' = TRUE
  /\ fetch' = [fetch EXCEPT !.requests = @ + 1, !.auth = "failed"]
  /\ UNCHANGED <<envVars, clientVars, deviceVars, pc, localVars, polls,
                 authRuns, poll>>

\* getEnphaseSessionId throws (the login is rejected, or fetch rejects)
loginFailed(response) ==
  /\ request.to = "login"
  /\ ~LoginSucceeds(response)
  /\ fetch' = [fetch EXCEPT !.auth = "failed", !.state = "threw"]
  /\ Catch(IF response = NoResponse THEN FetchError ELSE LoginError, poll)
  /\ UNCHANGED <<envVars, clientVars, cap, polls, authRuns>>

\* getEnphaseSessionId returns session_id: the token request is sent, with
\* this.deviceSn and this.username as they are now
loginSucceeded(response) ==
  /\ request.to = "login"
  /\ LoginSucceeds(response)
  /\ request' = TokenRequest(SessionIdFor(request.username), deviceSn, username)
  /\ UNCHANGED <<envVars, clientVars, deviceVars, pc, isRetry, localVars, polls,
                 authRuns, fetch, poll>>

\* the token request fails: throw
tokenFailed(response) ==
  /\ request.to = "tokens"
  /\ ~(response # NoResponse /\ Ok(response))
  /\ fetch' = [fetch EXCEPT !.auth = "failed", !.state = "threw"]
  /\ Catch(IF response = NoResponse THEN FetchError ELSE TokenError, poll)
  /\ UNCHANGED <<envVars, clientVars, cap, polls, authRuns>>

\* the bearer token the cloud mints in a getAccessToken run
BearerOf(run) == run

\* tokenResponse.ok: this.accessToken = await tokenResponse.text(), and the
\* check_jwt request is sent with it
tokenSucceeded(response) ==
  /\ request.to = "tokens"
  /\ response # NoResponse /\ Ok(response)
  /\ accessToken' = BearerOf(authRuns)
  /\ request' = CheckJwtRequest(accessToken')
  /\ UNCHANGED <<envVars, address, deviceSn, credentialVars, sessionId,
                 deviceVars, pc, isRetry, localVars, polls, authRuns, fetch, poll>>

\* the gateway rejects the token (or fetch rejects): throw
checkJwtFailed(response) ==
  /\ request.to = "check_jwt"
  /\ ~(response # NoResponse /\ Ok(response))
  /\ fetch' = [fetch EXCEPT !.auth = "failed", !.state = "threw"]
  /\ Catch(IF response = NoResponse THEN FetchError ELSE TokenError, poll)
  /\ UNCHANGED <<envVars, clientVars, cap, polls, authRuns>>

\* checkJwtResponse.ok: this.sessionId = <what the pattern extracts>;
\* getAccessToken returns and fetchApiEndpoint(path, true) sends the request
checkJwtSucceeded(response) ==
  /\ request.to = "check_jwt"
  /\ response # NoResponse /\ Ok(response)
  /\ \E header \in SetCookieHeaders(request.Authorization) :
       sessionId' = ParseCookie(header)
  /\ request' = GatewayRequest(Path(pc), sessionId')
  /\ isRetry' = TRUE
  /\ fetch' = [fetch EXCEPT !.requests = @ + 1, !.auth = "ok"]
  /\ UNCHANGED <<envVars, address, deviceSn, credentialVars, accessToken,
                 deviceVars, pc, localVars, polls, authRuns, poll>>

\* ------------------------------------------- checkProduction, continued
\* getMeters() returns: isMetered is computed and overridden, and
\* getProductionData() is awaited
getMetersReturned(status) ==
  /\ request.to = "gateway" /\ pc = "getMeters"
  /\ ~RetryCondition(status, isRetry)
  /\ Ok(status)
  /\ \E meters \in MeterLists :
       /\ meterData' = meters
       /\ isMetered' = Override(IsMeteredComputed(meters))
  /\ pc' = "getProductionData"
  /\ request' = GatewayRequest(Path("getProductionData"), sessionId)
  /\ isRetry' = FALSE
  /\ fetch' = NewFetch
  /\ UNCHANGED <<envVars, clientVars, deviceVars, polls, authRuns, poll>>

\* let currentEnergy = 0
CurrentEnergy == <<0>>

\* getProductionData() returns, !isMetered: the four capabilities are set,
\* then setAvailable()
getProductionDataUnmetered(status) ==
  /\ request.to = "gateway" /\ pc = "getProductionData"
  /\ ~RetryCondition(status, isRetry)
  /\ Ok(status)
  /\ ~isMetered
  /\ fetch' = [fetch EXCEPT !.responses = Append(@, status), !.state = "returned"]
  /\ \E productionData \in ProductionReports :
       /\ productionData.production # <<>>
       /\ cap' = [cap EXCEPT !["meter_power"] = CurrentEnergy,
                             !["measure_power"] = CurrentPower(productionData),
                             !["measure_power.consumption"] = <<0>>,
                             !["measure_power.grid"] = <<0>>]
       /\ SetAvailable([poll EXCEPT !.written = Capabilities,
                                    !.path = "unmetered",
                                    !.wNow = <<productionData.production[1].wNow>>])
  /\ UNCHANGED <<envVars, clientVars, polls, authRuns>>

\* getProductionData() returns, !isMetered, and the report has no production
\* entry: meter_power is set, production[0].wNow throws a TypeError
getProductionDataMalformed(status) ==
  /\ request.to = "gateway" /\ pc = "getProductionData"
  /\ ~RetryCondition(status, isRetry)
  /\ Ok(status)
  /\ ~isMetered
  /\ fetch' = [fetch EXCEPT !.responses = Append(@, status), !.state = "returned"]
  /\ \E productionData \in ProductionReports :
       /\ productionData.production = <<>>
       /\ cap' = [cap EXCEPT !["meter_power"] = CurrentEnergy]
       /\ Catch(TypeError, [poll EXCEPT !.written = {"meter_power"},
                                        !.path = "unmetered"])
  /\ UNCHANGED <<envVars, clientVars, polls, authRuns>>

\* getProductionData() returns, isMetered: meter_power is set and
\* getMeterReadings() is awaited (the report is not read on this path)
getProductionDataMetered(status) ==
  /\ request.to = "gateway" /\ pc = "getProductionData"
  /\ ~RetryCondition(status, isRetry)
  /\ Ok(status)
  /\ isMetered
  /\ cap' = [cap EXCEPT !["meter_power"] = CurrentEnergy]
  /\ pc' = "getMeterReadings"
  /\ request' = GatewayRequest(Path("getMeterReadings"), sessionId)
  /\ isRetry' = FALSE
  /\ fetch' = NewFetch
  /\ poll' = [poll EXCEPT !.written = {"meter_power"}, !.path = "metered"]
  /\ UNCHANGED <<envVars, clientVars, available, localVars, polls, authRuns>>

\* productionPower !== null && gridConsumptionPower !== null
BothPresent(productionPower, gridConsumptionPower) ==
  productionPower # <<>> /\ gridConsumptionPower # <<>>

\* the three setCapabilityValue calls of the metered branch
MeteredValues(values, productionPower, gridConsumptionPower) ==
  [values EXCEPT
     !["measure_power"] = productionPower,
     !["measure_power.consumption"] =
        SelfConsumption(productionPower, gridConsumptionPower),
     !["measure_power.grid"] = gridConsumptionPower]

\* getMeterReadings() returns: the two powers are looked up by eid; the
\* three power capabilities are set if both are there; setAvailable()
getMeterReadingsReturned(status) ==
  /\ request.to = "gateway" /\ pc = "getMeterReadings"
  /\ ~RetryCondition(status, isRetry)
  /\ Ok(status)
  /\ fetch' = [fetch EXCEPT !.responses = Append(@, status), !.state = "returned"]
  /\ \E meterReadingsData \in MeterReadings :
       LET production ==
             ActivePower(meterReadingsData, EidOf(meterData, PRODUCTION_METER))
           grid ==
             ActivePower(meterReadingsData, EidOf(meterData, NET_CONSUMPTION_METER))
           productionPower == OrNull(production)
           gridConsumptionPower == OrNull(grid)
           history == [poll EXCEPT !.production = production, !.grid = grid]
       IN  IF BothPresent(productionPower, gridConsumptionPower)
           THEN /\ cap' = MeteredValues(cap, productionPower, gridConsumptionPower)
                /\ SetAvailable([history EXCEPT !.written = Capabilities])
           ELSE /\ cap' = cap
                /\ SetAvailable(history)
  /\ UNCHANGED <<envVars, clientVars, polls, authRuns>>

\* ------------------------------------------------------------------ Next
Next ==
  \/ \E s \in Settings : onDiscoveryAddressChanged(s)
  \/ \E s \in Settings : \E r \in Responses :
       onSettings(s, r) /\ UNCHANGED credentialsUse
  \/ checkProduction
  \/ checkProductionUndiscovered
  \/ fetchRejected
  \/ \E s \in Statuses : fetchUnauthorized(s) /\ UNCHANGED credentialsUse
  \/ \E s \in Statuses : fetchNotOk(s)
  \/ \E r \in Responses : loginFailed(r)
  \/ \E r \in Responses : loginSucceeded(r)
  \/ \E r \in Responses : tokenFailed(r)
  \/ \E r \in Responses : tokenSucceeded(r)
  \/ \E r \in Responses : checkJwtFailed(r)
  \/ \E r \in Responses : checkJwtSucceeded(r)
  \/ \E s \in Statuses : getMetersReturned(s)
  \/ \E s \in Statuses : getProductionDataUnmetered(s)
  \/ \E s \in Statuses : getProductionDataMalformed(s)
  \/ \E s \in Statuses : getProductionDataMetered(s)
  \/ \E s \in Statuses : getMeterReadingsReturned(s)

Spec == Init /\ [][Next]_vars

\* ------------------------------------------ getEnphaseSessionId by itself
\* static getEnphaseSessionId(username, password), called on its own: the
\* POST to the login endpoint and its outcome.  The method is static: it
\* has no client to read or write, and the only request is the login.
verifyCredentials(u, p, response) ==
  /\ verified' = [username |-> u, password |-> p, response |-> response,
                  returned |-> LoginSucceeds(response), called |-> TRUE]
  /\ UNCHANGED <<forceUnmetered, enphaseApi, clientVars, deviceVars, pc, request,
                 isRetry, localVars, polls, authRuns, fetch, poll,
                 credentialsUse>>

\* the handlers that run without a poll under way, and the static call
NextVerify ==
  \/ \E s \in Settings : onDiscoveryAddressChanged(s)
  \/ \E s \in Settings : \E r \in Responses :
       onSettings(s, r) /\ UNCHANGED credentialsUse
  \/ checkProductionUndiscovered
  \/ \E s \in Settings : \E r \in Responses :
       verifyCredentials(s.username, s.password, r)

SpecVerify == Init /\ [][NextVerify]_vars

\* ------------------------------------------------ the source as it stands
\* the override of device.ts:114 in force, nothing stored by the host
InitReference ==
  /\ Init
  /\ forceUnmetered
  /\ cap = [c \in Capabilities |-> <<>>]

\* setCredentials(u, p) was called: its arguments, not yet used
CredentialsSet(newSettings, response) ==
  credentialsUse' =
    IF enphaseApi /\ LoginSucceeds(response)
    THEN [state |-> "set", username |-> newSettings.username,
          password |-> newSettings.password]
    ELSE credentialsUse

\* a getAccessToken run begins: the first after a setCredentials uses it
CredentialsUsed ==
  credentialsUse' =
    IF credentialsUse.state = "set"
    THEN [credentialsUse EXCEPT !.state = "used"]
    ELSE credentialsUse

\* with the override in force the metered branch is never entered
NextReference ==
  \/ \E s \in Settings : onDiscoveryAddressChanged(s)
  \/ \E s \in Settings : \E r \in Responses :
       onSettings(s, r) /\ CredentialsSet(s, r)
  \/ checkProduction
  \/ checkProductionUndiscovered
  \/ fetchRejected
  \/ \E s \in Statuses : fetchUnauthorized(s) /\ CredentialsUsed
  \/ \E s \in Statuses : fetchNotOk(s)
  \/ \E r \in Responses : loginFailed(r)
  \/ \E r \in Responses : loginSucceeded(r)
  \/ \E r \in Responses : tokenFailed(r)
  \/ \E r \in Responses : tokenSucceeded(r)
  \/ \E r \in Responses : checkJwtFailed(r)
  \/ \E r \in Responses : checkJwtSucceeded(r)
  \/ \E s \in Statuses : getMetersReturned(s)
  \/ \E s \in Statuses : getProductionDataUnmetered(s)
  \/ \E s \in Statuses : getProductionDataMalformed(s)

SpecReference == InitReference /\ [][NextReference]_vars

\* ------------------------------------------------- responses do arrive
\* the step that a response to the request in flight (or the rejection of
\* its fetch) sets off, in the source as it stands
Respond ==
  \/ fetchRejected
  \/ \E s \in Statuses : fetchUnauthorized(s) /\ CredentialsUsed
  \/ \E s \in Statuses : fetchNotOk(s)
  \/ \E r \in Responses : loginFailed(r)
  \/ \E r \in Responses : loginSucceeded(r)
  \/ \E r \in Responses : tokenFailed(r)
  \/ \E r \in Responses : tokenSucceeded(r)
  \/ \E r \in Responses : checkJwtFailed(r)
  \/ \E r \in Responses : checkJwtSucceeded(r)
  \/ \E s \in Statuses : getMetersReturned(s)
  \/ \E s \in Statuses : getProductionDataUnmetered(s)
  \/ \E s \in Statuses : getProductionDataMalformed(s)

\* the source as it stands, with every await of a request ending: its
\* promise settles
FairSpec == SpecReference /\ WF_vars(Respond)

\* ================================================================ claims
\* a status in the client-error range
Is4xx(response) == response >= 400 /\ response < 500

\* the fetchApiEndpoint call of the poll has ended (returned or thrown)
FetchEnded == fetch.state \in {"returned", "threw"}

\* the first response of the call was a 4xx
First4xx == Len(fetch.responses) >= 1 /\ Is4xx(fetch.responses[1])

\* ------------------------------------------------------------------- C1
\* C1, as stated: a fetchApiEndpoint call whose first response is a 4xx has,
\* when it ends, called getAccessToken exactly once and re-issued the
\* request exactly once.
C1_ReissuedExactlyOnce ==
  (FetchEnded /\ First4xx) => (fetch.auths = 1 /\ fetch.requests = 2)

\* C1, amended: no fetchApiEndpoint call sends more than two data requests
\* or calls getAccessToken more than once; a call whose first response is a
\* 4xx calls getAccessToken exactly once, re-issues the request exactly once
\* if that getAccessToken returns and not at all if it throws; and a 4xx
\* to the re-issued request makes the call throw with nothing further sent.
C1_RetryAtMostOnce ==
  /\ fetch.requests <= 2 /\ fetch.auths <= 1
  /\ Len(fetch.responses) <= fetch.requests
  /\ (FetchEnded /\ First4xx) =>
       /\ fetch.auths = 1
       /\ fetch.auth = "ok" => fetch.requests = 2
       /\ fetch.auth = "failed" => (fetch.requests = 1 /\ fetch.state = "threw")
  /\ (Len(fetch.responses) = 2 /\ Is4xx(fetch.responses[2])) =>
       (fetch.state = "threw" /\ fetch.requests = 2 /\ fetch.auths = 1
        /\ request = NoRequest)

\* C1: a call has ended on two consecutive 401s
C1_Witness ==
  /\ fetch.state = "threw" /\ fetch.responses = <<401, 401>>
  /\ fetch.auths = 1 /\ fetch.requests = 2

\* ------------------------------------------------------------------- C2
\* C2: when getAccessToken has thrown (at any step), the stored bearer token
\* and session cookie are what they were before the call.
C2_SecretsKeptOnFailure ==
  fetch.auth = "failed" => <<accessToken, sessionId>> = fetch.before

\* ------------------------------------------------------------------- C3
\* C3: in every state of a client the bearer token and the session cookie
\* are both absent, or both present and of the same getAccessToken run.
C3_MatchedPair ==
  enphaseApi =>
    \/ accessToken = Null /\ sessionId = Null
    \/ accessToken > 0 /\ sessionId = accessToken

\* ------------------------------------------------------------------- C4
\* C4: no cookie value is stored from a Set-Cookie header the pattern does
\* not match (getAccessToken throws instead of returning), and no data
\* request carries a Cookie header built from an unparsed value.
C4_NoUnparsedCookie ==
  /\ sessionId # Undefined
  /\ request.to = "gateway" => request.Cookie # <<Undefined>>

\* ------------------------------------------------------------------- C5
\* C5: when a poll has ended on an error thrown by the client (by a data
\* fetch or by the getAccessToken inside it), it ended at that step: no
\* request is left, setUnavailable was called once, with the thrown error's
\* message, and no capability was set by the failing step or after it
\* (only meter_power, when the failing step is the meter-readings fetch).
C5_AbortOnClientFailure ==
  (pc = "done" /\ fetch.state = "threw") =>
    /\ poll.result = "unavailable" /\ poll.marks = 1
    /\ poll.thrown # NoError /\ poll.message = poll.thrown
    /\ request = NoRequest
    /\ poll.written =
         (IF poll.failedAt = "getMeterReadings" THEN {"meter_power"} ELSE {})
    /\ \A c \in Capabilities \ poll.written : cap[c] = poll.prior[c]

\* C5: a poll has ended on the failure of the getAccessToken run inside its
\* meter-readings fetch
C5_Witness ==
  /\ pc = "done" /\ fetch.state = "threw" /\ fetch.auth = "failed"
  /\ poll.failedAt = "getMeterReadings" /\ poll.message = TokenError

C7_Unmetered ==
  (pc = "done" /\ poll.path = "unmetered" /\ poll.result = "available") =>
    /\ poll.wNow # <<>>
    /\ cap["measure_power"] = poll.wNow
    /\ cap["measure_power.consumption"] = <<0>>
    /\ cap["measure_power.grid"] = <<0>>
    /\ cap["meter_power"] = <<0>>

\* C7: an unmetered poll has ended available on wNow = 842
C7_Witness ==
  /\ pc = "done" /\ poll.path = "unmetered" /\ poll.result = "available"
  /\ poll.wNow = <<842>> /\ cap["measure_power"] = <<842>>

C9_MissingJoin ==
  (/\ pc = "done" /\ poll.path = "metered" /\ fetch.state = "returned"
   /\ (poll.production = <<>> \/ poll.grid = <<>>)) =>
    /\ poll.result = "available" /\ poll.thrown = NoError
    /\ \A c \in Capabilities \ {"meter_power"} : cap[c] = poll.prior[c]

\* C9: such a poll has ended, on a device that held a production power
\* before: a reading for the net-consumption meter, none for production
C9_Witness ==
  /\ pc = "done" /\ poll.path = "metered" /\ fetch.state = "returned"
  /\ poll.production = <<>> /\ poll.grid = <<500>>
  /\ poll.result = "available"
  /\ poll.prior["measure_power"] = <<842>> /\ cap["measure_power"] = <<842>>

\* ------------------------------------------------------------------ C10
\* C10, as stated: a failure of any kind on the first attempt of a data
\* fetch (a 4xx, another non-2xx status, a rejected fetch) makes the call
\* re-authenticate exactly once.
C10_AnyFailureRetried ==
  (FetchEnded /\ Len(fetch.responses) >= 1 /\ ~Ok(fetch.responses[1])) =>
    fetch.auths = 1

\* C10, amended: a 4xx on the first attempt, and nothing else, makes the
\* call re-authenticate (once); a non-2xx status outside the 4xx range or a
\* rejected fetch makes it throw at once, with no getAccessToken call and
\* no second request; whatever the call throws ends the poll with one
\* setUnavailable call carrying one message.
C10_RetryOnlyOn4xx ==
  /\ (FetchEnded /\ First4xx) => fetch.auths = 1
  /\ (Len(fetch.responses) >= 1 /\ ~Is4xx(fetch.responses[1])) =>
       /\ fetch.auths = 0 /\ fetch.requests = 1
       /\ ~Ok(fetch.responses[1]) => fetch.state = "threw"
  /\ fetch.state = "threw" =>
       /\ pc = "done" /\ poll.result = "unavailable" /\ poll.marks = 1
       /\ poll.message # <<>>

\* C10: a poll has ended on a 500 to the first attempt of a data fetch
C10_Witness ==
  /\ pc = "done" /\ fetch.state = "threw" /\ fetch.responses = <<500>>
  /\ fetch.auths = 0 /\ poll.result = "unavailable"

\* ------------------------------------------------------------------ C11
\* a status in the success range
Is2xx(response) == response >= 200 /\ response < 300

\* C11: a call of getEnphaseSessionId on its own returns exactly when the
\* login endpoint answers with a 2xx status (it throws on any other status
\* and when no response arrives); the call leaves every field of the client
\* as it was and sends nothing to the gateway.
C11_VerifyCredentials ==
  [][verified' # verified =>
       /\ verified'.returned <=> Is2xx(verified'.response)
       /\ UNCHANGED <<clientVars, request>>]_vars

\* C11: credentials other than the client's were verified with a 200, and
\* the client still holds its own
C11_Witness ==
  /\ verified.called /\ verified.returned /\ verified.response = 200
  /\ enphaseApi /\ username # verified.username /\ request = NoRequest

\* ------------------------------------------------------------------ C12
\* C12: after setCredentials(u, p) the client holds u and p; the call
\* leaves accessToken, sessionId, address and deviceSn as they were; and the
\* login request of the getAccessToken runs that begin after it carries u
\* and p.
C12_SetCredentials ==
  /\ [](credentialsUse.state = "set" =>
         /\ username = credentialsUse.username
         /\ password = credentialsUse.password)
  /\ []((credentialsUse.state = "used" /\ request.to = "login") =>
         /\ request.username = credentialsUse.username
         /\ request.password = credentialsUse.password)
  /\ [][(credentialsUse' # credentialsUse /\ credentialsUse'.state = "set") =>
         UNCHANGED <<accessToken, sessionId, address, deviceSn>>]_vars

\* C12: a client that held a token when setCredentials("bob", "pw2") was
\* called has since begun a getAccessToken run, whose login request is in
\* flight with bob's credentials
C12_Witness ==
  /\ credentialsUse.state = "used" /\ credentialsUse.username = "bob"
  /\ request.to = "login" /\ request.username = "bob"
  /\ request.password = "pw2" /\ accessToken # Null

\* ------------------------------------------------------------------ C13
\* every type of the list is production or net-consumption
NoOtherType(meters) ==
  ~ \E i \in 1..Len(meters) :
      meters[i].measurementType \notin {PRODUCTION_METER, NET_CONSUMPTION_METER}

\* the types of a meter list, in order
TypesOf(meters) == [i \in 1..Len(meters) |-> meters[i].measurementType]

\* C13: the metering decision computed from the meter list, before any
\* override, is true exactly when the list is non-empty and every entry is
\* a production or a net-consumption meter: true for [production,
\* net-consumption], false for [other], for a list with an entry of
\* another type, and for the empty list.  (Read where the override is
\* lifted, so that isMetered holds the computed value.)
C13_MeteringDecision ==
  (~forceUnmetered /\ pc \in {"getProductionData", "getMeterReadings"}) =>
    /\ isMetered <=> (meterData # <<>> /\ NoOtherType(meterData))
    /\ TypesOf(meterData) = <<PRODUCTION_METER, NET_CONSUMPTION_METER>> =>
         isMetered
    /\ meterData = <<>> => ~isMetered
    /\ (Len(meterData) >= 1 /\ meterData[1].measurementType = "other") =>
         ~isMetered

\* C13: the list [production, net-consumption] was decided metered
C13_Witness ==
  /\ ~forceUnmetered /\ pc = "getProductionData" /\ isMetered
  /\ TypesOf(meterData) = <<PRODUCTION_METER, NET_CONSUMPTION_METER>>

\* ------------------------------------------------------------------ C14
\* the paths of the meter list and of the production report
UnmeteredPaths == {Path("getMeters"), Path("getProductionData")}

\* the order of a poll under the override: meter list, production report
UnmeteredOrder ==
  {<<"idle", "getMeters">>, <<"done", "getMeters">>,
   <<"getMeters", "getProductionData">>, <<"getMeters", "done">>,
   <<"getProductionData", "done">>, <<"idle", "done">>}

FirstOther ==
  /\ Len(fetch.responses) >= 1 /\ fetch.responses[1] # NoResponse
  /\ ~Is2xx(fetch.responses[1]) /\ ~Is4xx(fetch.responses[1])

\* C15: a fetchApiEndpoint call whose first response is a 2xx returns on
\* it, and one whose first response is a non-2xx status outside the 4xx
\* range throws on it; either way the call has made no getAccessToken call
\* and no second request, and a first attempt that does not lead to
\* getAccessToken leaves accessToken and sessionId as they were.
C15_FirstResponseDecides ==
  /\ []((Len(fetch.responses) >= 1 /\ Is2xx(fetch.responses[1])) =>
         /\ fetch.state = "returned" /\ Len(fetch.responses) = 1
         /\ fetch.auths = 0 /\ fetch.requests = 1)
  /\ [](FirstOther =>
         /\ fetch.state = "threw" /\ Len(fetch.responses) = 1
         /\ fetch.auths = 0 /\ fetch.requests = 1
         /\ poll.thrown = UnknownError(fetch.responses[1], accessToken, sessionId))
  /\ []((fetch.auths >= 1) => First4xx)
  /\ [][(request.to = "gateway" /\ ~isRetry /\ request' # request
           /\ request'.to # "login") =>
         UNCHANGED <<secretVars, authRuns>>]_vars

\* C15: a client holding both secrets got a 200 to the first attempt of the
\* last data fetch of a poll, and holds the same secrets
C15_Witness ==
  /\ pc = "done" /\ fetch.state = "returned" /\ fetch.responses = <<200>>
  /\ fetch.auths = 0 /\ authRuns = 1 /\ accessToken = BearerOf(1)
  /\ sessionId = BearerOf(1)

\* ------------------------------------------------------------------ C16
\* a poll is under way
Polling == pc \notin {"idle", "done"}

\* C16: when every request gets its response (or its rejection), a poll
\* that has begun ends; it has then marked the device once, available or
\* unavailable, and left no request behind; before it ends it has marked
\* nothing.
C16_PollTerminates ==
  /\ [](poll.marks <= 1)
  /\ [](Polling => (poll.marks = 0 /\ request # NoRequest))
  /\ [](pc = "done" =>
         /\ poll.marks = 1 /\ request = NoRequest
         /\ poll.result \in {"available", "unavailable"})
  /\ Polling ~> (pc = "done")

\* C16: a poll went through a getAccessToken run and a retry that was
\* refused as well, and ended with one mark
C16_Witness ==
  /\ pc = "done" /\ poll.marks = 1 /\ poll.result = "unavailable"
  /\ fetch.responses = <<401, 401>> /\ fetch.auth = "ok" /\ ~available

\* ------------------------------------------------------------------ C17
\* the errors a getAccessToken run throws
AuthErrors == {LoginError, TokenError, FetchError}

\* C17: when the getAccessToken run set off by a 4xx on the first attempt
\* has thrown (at the login, the token exchange or check_jwt), the
\* fetchApiEndpoint call has thrown that error, the data request was sent
\* once only, and the poll has ended unavailable with that error's message.
C17_AuthFailurePropagates ==
  fetch.auth = "failed" =>
    /\ fetch.state = "threw" /\ fetch.requests = 1 /\ fetch.auths = 1
    /\ First4xx /\ Len(fetch.responses) = 1
    /\ pc = "done" /\ request = NoRequest
    /\ poll.thrown \in AuthErrors
    /\ poll.result = "unavailable" /\ poll.message = ErrorMessage(poll.thrown)

\* C17: the cloud login of a getAccessToken run was rejected
C17_Witness ==
  /\ fetch.auth = "failed" /\ poll.thrown = LoginError
  /\ fetch.requests = 1 /\ fetch.responses = <<401>>

\* ------------------------------------------------------------------ C18
\* C18, as stated: the request that fetchApiEndpoint sends again after a
\* getAccessToken run that returned carries as its Cookie the session
\* cookie which the gateway set in answer to that run's check_jwt (the
\* session of the run's bearer token), not the cookie of the first
\* attempt; and a first attempt of a client whose sessionId is null
\* carries no Cookie header.
C18_RetryCarriesNewCookie ==
  /\ (request.to = "gateway" /\ isRetry) =>
       /\ fetch.auth = "ok"
       /\ request.Cookie = <<BearerOf(authRuns)>>
       /\ request.Cookie # RequestHeaders(fetch.before[2])
  /\ (request.to = "gateway" /\ ~isRetry /\ sessionId = Null) =>
       request.Cookie = <<>>

\* ------------------------------------------------------------------ C19
\* C19, as stated: the username sent in the token request of a
\* getAccessToken run is the username that was sent in the login request of
\* the same run, whatever setCredentials calls happen meanwhile.  (The
\* session_id of the token request is the one the cloud returned for the
\* username of the login request, SessionIdFor of it.)
C19_OneUsernamePerRun ==
  request.to = "tokens" => request.session_id = SessionIdFor(request.username)

====
